---- MODULE Spec2Model ----
(***************************************************************************)
(* Model of the OIDC provider adapter, internal/provider/oidc.go.          *)
(*                                                                         *)
(* Strings the code inspects (the raw group values) are sequences of       *)
(* one-character strings; strings the code only passes along (URLs, ids,   *)
(* secrets, error texts) are TLA+ strings.  Go's nil is Nil for pointers   *)
(* and "nil" for the error interface.                                      *)
(***************************************************************************)
EXTENDS Integers, Sequences, FiniteSets, TLC

VARIABLES
    o,          \* the OIDC struct: its own fields and the embedded OAuthProvider's
    setup,      \* the one Setup call of the process: called, returned error, log lines
    last,       \* the request operation that returned last: arguments, result, log lines
    returned,   \* history: every (redirect URI, state, URL) GetLoginURL has returned
    raw,        \* SpecFlatten: the raw group values of the token presented
    threads     \* SpecConc: the request handlers running GetLoginURL/ExchangeCode/GetUser

vars == <<o, setup, last, returned, raw, threads>>

----------------------------------------------------------------------------
(* Bounds *)

MaxLen == 3        \* longest raw group value drawn exhaustively
MaxGroups == 2     \* longest list of raw group values drawn exhaustively
NumThreads == 2    \* concurrent request handlers of SpecConc

----------------------------------------------------------------------------
(* Values *)

Nil == [nil |-> TRUE]
NoErr == "nil"

Chars == {"a", "/"}
Slash == <<"/">>

RECURSIVE StringsOfLen(_)
StringsOfLen(n) ==
    IF n = 0 THEN {<<>>}
    ELSE {Append(s, c) : s \in StringsOfLen(n - 1), c \in Chars}

RECURSIVE StringsUpTo(_)
StringsUpTo(n) == IF n = 0 THEN StringsOfLen(0) ELSE StringsOfLen(n) \cup StringsUpTo(n - 1)

RawGroups == StringsUpTo(MaxLen)

RECURSIVE ListsOfLen(_, _)
ListsOfLen(S, n) ==
    IF n = 0 THEN {<<>>}
    ELSE {Append(l, x) : l \in ListsOfLen(S, n - 1), x \in S}

RECURSIVE ListsUpTo(_, _)
ListsUpTo(S, n) == IF n = 0 THEN ListsOfLen(S, 0) ELSE ListsOfLen(S, n) \cup ListsUpTo(S, n - 1)

\* The group lists the specification names, spelled out character by character.
G_a == <<"a">>
G_b == <<"b">>
G_org == <<"o", "r", "g">>
G_teamA == <<"t", "e", "a", "m", "A">>
G_teamB == <<"t", "e", "a", "m", "B">>
G_sub == <<"s", "u", "b">>

NamedGroupLists ==
    { << Slash \o G_a \o Slash \o G_b, Slash \o G_a \o Slash \o G_b >>,   \* ["/a/b", "/a/b"]
      << G_a \o Slash \o Slash \o G_b \o Slash >>,                        \* ["a//b/"]
      << G_a \o Slash \o G_b >>,                                          \* ["a/b"]
      << Slash \o G_a, G_a \o Slash \o G_b >>,                            \* ["/a", "a/b"]
      << Slash \o G_org \o Slash \o G_teamA, G_org \o Slash \o G_teamB \o Slash >>,
      << Slash \o G_teamA \o Slash \o G_sub, G_teamA >> }

GroupLists == ListsUpTo(RawGroups, MaxGroups) \cup NamedGroupLists

----------------------------------------------------------------------------
(* Inputs: what the configuration loader, the network and the callers supply *)

IssuerURLs == {"", "https://idp"}
ClientIDs == {"", "cid"}
ClientSecrets == {"", "secret"}

RedirectURIs == {"https://app/_oauth", "https://alt/_oauth"}
States == {"s1", "s2"}
Codes == {"c1", "c2"}

\* What the discovery fetch of oidc.NewProvider can come back with.
DiscoveryReplies ==
    { [err |-> "unreachable"], [err |-> "malformed metadata"] }
    \cup { [err |-> NoErr, issuer |-> i, authURL |-> "https://idp/auth", tokenURL |-> "https://idp/token"]
           : i \in {"https://idp", "https://evil"} }

\* A claim of the token's payload: absent, or present with a value.
Absent == [present |-> FALSE]
Present(v) == [present |-> TRUE, val |-> v]

\* A payload the JSON decoder rejects for the struct {email string; groups []string}.
MalformedClaims == [malformed |-> TRUE]
ClaimSet(email, groups) == [malformed |-> FALSE, email |-> email, groups |-> groups]

\* A raw identity token is modelled by what it carries: who signed it, its audience, its payload.
EmptyToken == [empty |-> TRUE]
Token(sig, aud, claims) == [empty |-> FALSE, sig |-> sig, aud |-> aud, claims |-> claims]

Email == "u@x.com"
ExampleGroups == << Slash \o G_org \o Slash \o G_teamA, G_org \o Slash \o G_teamB \o Slash >>
ExampleToken == Token("ok", "cid", ClaimSet(Present(Email), Present(ExampleGroups)))

SmallClaims ==
    { MalformedClaims }
    \cup { ClaimSet(e, g) : e \in {Absent, Present(Email)},
                            g \in {Absent, Present(<<>>)} \cup {Present(l) : l \in NamedGroupLists} }

SmallTokens ==
    { EmptyToken } \cup { Token(s, a, c) : s \in {"ok", "bad"}, a \in {"cid", "other"}, c \in SmallClaims }

IdTokenStrings == { EmptyToken, ExampleToken, Token("bad", "cid", ClaimSet(Present(Email), Absent)) }

\* The id_token extension of a token response: missing, of another JSON type, or a string.
IdTokenExtras ==
    { [type |-> "absent"], [type |-> "number"], [type |-> "null"] }
    \cup { [type |-> "string", str |-> t] : t \in IdTokenStrings }

\* What one request to the token endpoint can come back with.
TokenReplies ==
    { [err |-> "oauth2: cannot fetch token"], [err |-> "dial tcp: timeout"] }
    \cup { [err |-> NoErr, token |-> [AccessToken |-> "at", extra |-> x]] : x \in IdTokenExtras }

----------------------------------------------------------------------------
(* The libraries the adapter calls *)

\* oidc.NewProvider(ctx, issuer): the discovery fetch; the provider is nil on error.
NewProvider(ctx, issuer, reply) ==
    IF reply.err # NoErr THEN [provider |-> Nil, err |-> reply.err]
    ELSE IF reply.issuer # issuer THEN [provider |-> Nil, err |-> "oidc: issuer did not match"]
    ELSE [provider |-> [issuer |-> issuer, authURL |-> reply.authURL, tokenURL |-> reply.tokenURL],
          err |-> NoErr]

\* provider.Endpoint()
Endpoint(provider) == [AuthURL |-> provider.authURL, TokenURL |-> provider.tokenURL]

\* provider.Verifier(&oidc.Config{ClientID: ...})
Verifier(provider, clientID) == [issuer |-> provider.issuer, ClientID |-> clientID]

\* verifier.Verify(ctx, token): signature, issuer, audience.
Verify(verifier, ctx, token) ==
    IF token.empty THEN [idToken |-> Nil, err |-> "oidc: malformed jwt"]
    ELSE IF token.sig # "ok" THEN [idToken |-> Nil, err |-> "oidc: failed to verify signature"]
    ELSE IF token.aud # verifier.ClientID THEN [idToken |-> Nil, err |-> "oidc: expected audience"]
    ELSE [idToken |-> [claims |-> token.claims], err |-> NoErr]

\* idToken.Claims(&user): a missing claim leaves the field at its zero value.
Claims(idToken) ==
    IF idToken.claims.malformed
    THEN [user |-> [Email |-> "", Groups |-> <<>>], err |-> "json: cannot unmarshal"]
    ELSE [user |-> [Email |-> IF idToken.claims.email.present THEN idToken.claims.email.val ELSE "",
                    Groups |-> IF idToken.claims.groups.present THEN idToken.claims.groups.val ELSE <<>>],
          err |-> NoErr]

\* strings.Index(s, sep) for a one-character sep, 1-based; 0 when sep does not occur.
Index(s, sep) ==
    IF \E i \in 1..Len(s) : s[i] = sep
    THEN CHOOSE i \in 1..Len(s) : s[i] = sep /\ \A j \in 1..(i - 1) : s[j] # sep
    ELSE 0

\* strings.Split(s, sep) for a one-character sep: always at least one element.
RECURSIVE Split(_, _)
Split(s, sep) ==
    LET m == Index(s, sep)
    IN  IF m = 0 THEN <<s>>
        ELSE <<SubSeq(s, 1, m - 1)>> \o Split(SubSeq(s, m + 1, Len(s)), sep)

\* token.Extra("id_token")
Extra(token, key) == IF key = "id_token" THEN token.extra ELSE [type |-> "absent"]

----------------------------------------------------------------------------
(* The embedded OAuthProvider (providers.go) *)

\* ConfigCopy: a copy of the oauth2 config carrying the redirect URI.
ConfigCopy(self, redirectURI) ==
    [ClientID |-> self.Config.ClientID, ClientSecret |-> self.Config.ClientSecret,
     Endpoint |-> self.Config.Endpoint, Scopes |-> self.Config.Scopes, RedirectURL |-> redirectURI]

\* OAuthGetLoginURL: config.AuthCodeURL(state), the authorization-request URL.
OAuthGetLoginURL(self, redirectURI, state) ==
    LET config == ConfigCopy(self, redirectURI)
    IN  [base |-> config.Endpoint.AuthURL, response_type |-> "code", client_id |-> config.ClientID,
         redirect_uri |-> config.RedirectURL, scope |-> config.Scopes, state |-> state]

\* OAuthExchangeCode: config.Exchange(ctx, code), one request to the token endpoint.
OAuthExchangeCode(self, redirectURI, code, reply) ==
    LET config == ConfigCopy(self, redirectURI)
        request == [url |-> config.Endpoint.TokenURL, grant_type |-> "authorization_code",
                    client_id |-> config.ClientID, redirect_uri |-> config.RedirectURL, code |-> code]
    IN  IF reply.err # NoErr
        THEN [token |-> Nil, err |-> reply.err, sent |-> <<request>>]
        ELSE [token |-> reply.token, err |-> NoErr, sent |-> <<request>>]

----------------------------------------------------------------------------
(* The adapter *)

ConfigError ==
    "providers.oidc.issuer-url, providers.oidc.client-id, providers.oidc.client-secret must be set"
MissingIDToken == "Missing id_token"

Background == [background |-> TRUE]
Logger == [prefix |-> "ByMarek: ", out |-> "Stdout"]
LogLine(msg, arg) == [msg |-> msg, arg |-> arg]

\* The zero value of the struct with the loader's three settings filled in.
NewOIDC(issuerURL, clientID, clientSecret) ==
    [IssuerURL |-> issuerURL, ClientID |-> clientID, ClientSecret |-> clientSecret,
     Config |-> Nil, ctx |-> Nil, provider |-> Nil, verifier |-> Nil, MyLog |-> Nil]

\* SetupResult with || written as &&: only a wholly empty configuration is rejected.
SetupResultAllEmpty(self, reply) ==
    IF self.IssuerURL = "" /\ self.ClientID = "" /\ self.ClientSecret = ""
    THEN [o |-> self, err |-> ConfigError, log |-> <<>>]
    ELSE LET np == NewProvider(Background, self.IssuerURL, reply)
         IN  IF np.err # NoErr
             THEN [o |-> [self EXCEPT !.ctx = Background, !.provider = np.provider],
                   err |-> np.err, log |-> <<>>]
             ELSE [o |-> [self EXCEPT !.ctx = Background, !.provider = np.provider,
                                      !.MyLog = Logger,
                                      !.Config = [ClientID |-> self.ClientID,
                                                  ClientSecret |-> self.ClientSecret,
                                                  Endpoint |-> Endpoint(np.provider),
                                                  RedirectURL |-> "",
                                                  Scopes |-> <<"openid", "profile", "email">>],
                                      !.verifier = Verifier(np.provider, self.ClientID)],
                   err |-> NoErr,
                   log |-> <<LogLine("OIDC.Setup", Nil)>>]

\* SetupResult with the oauth2 config built before the discovery fetch.
SetupResultEager(self, reply) ==
    IF self.IssuerURL = "" \/ self.ClientID = "" \/ self.ClientSecret = ""
    THEN [o |-> self, err |-> ConfigError, log |-> <<>>]
    ELSE LET o1 == [self EXCEPT !.ctx = Background,
                                !.Config = [ClientID |-> self.ClientID,
                                            ClientSecret |-> self.ClientSecret,
                                            Endpoint |-> [AuthURL |-> "", TokenURL |-> ""],
                                            RedirectURL |-> "",
                                            Scopes |-> <<"openid", "profile", "email">>]]
             np == NewProvider(o1.ctx, o1.IssuerURL, reply)
             o2 == [o1 EXCEPT !.provider = np.provider]
         IN  IF np.err # NoErr
             THEN [o |-> o2, err |-> np.err, log |-> <<>>]
             ELSE [o |-> [o2 EXCEPT !.MyLog = Logger,
                                    !.Config.Endpoint = Endpoint(o2.provider),
                                    !.verifier = Verifier(o2.provider, o2.ClientID)],
                   err |-> NoErr,
                   log |-> <<LogLine("OIDC.Setup", Nil)>>]

\* Setup: the adapter after the call, the returned error, the lines logged.
SetupResult(self, reply) ==
    IF self.IssuerURL = "" \/ self.ClientID = "" \/ self.ClientSecret = ""
    THEN [o |-> self, err |-> ConfigError, log |-> <<>>]
    ELSE LET o1 == [self EXCEPT !.ctx = Background]
             np == NewProvider(o1.ctx, o1.IssuerURL, reply)
             o2 == [o1 EXCEPT !.provider = np.provider]
         IN  IF np.err # NoErr
             THEN [o |-> o2, err |-> np.err, log |-> <<>>]
             ELSE [o |-> [o2 EXCEPT !.MyLog = Logger,
                                    !.Config = [ClientID |-> o2.ClientID,
                                                ClientSecret |-> o2.ClientSecret,
                                                Endpoint |-> Endpoint(o2.provider),
                                                RedirectURL |-> "",
                                                Scopes |-> <<"openid", "profile", "email">>],
                                    !.verifier = Verifier(o2.provider, o2.ClientID)],
                   err |-> NoErr,
                   log |-> <<LogLine("OIDC.Setup", Nil)>>]

\* GetLoginURL keeping the state of the previous login request in a shared buffer.
GetLoginURLStale(self, redirectURI, state) ==
    OAuthGetLoginURL(self, redirectURI, IF last.op = "GetLoginURL" THEN last.state ELSE state)

GetLoginURL(self, redirectURI, state) == OAuthGetLoginURL(self, redirectURI, state)

\* The rest of ExchangeCode once OAuthExchangeCode has returned x.
ExtractIDToken(self, x) ==
    IF x.err # NoErr
    THEN [token |-> EmptyToken, err |-> x.err, log |-> <<>>, sent |-> x.sent]
    ELSE LET rawIDToken == Extra(x.token, "id_token")
         IN  IF rawIDToken.type # "string"
             THEN [token |-> EmptyToken, err |-> MissingIDToken, log |-> <<>>, sent |-> x.sent]
             ELSE [token |-> rawIDToken.str, err |-> NoErr,
                   log |-> <<LogLine("OIDC.ExchangeCode, rawIDToken:", rawIDToken.str)>>,
                   sent |-> x.sent]

\* ExchangeCode trying the exchange a second time when the first request fails.
ExchangeCodeRetry(self, redirectURI, code, replies) ==
    LET x1 == OAuthExchangeCode(self, redirectURI, code, replies.first)
        x2 == OAuthExchangeCode(self, redirectURI, code, replies.again)
    IN  IF x1.err = NoErr THEN ExtractIDToken(self, x1)
        ELSE ExtractIDToken(self, [x2 EXCEPT !.sent = x1.sent \o x2.sent])

\* ExchangeCode without the check of the type assertion: a missing id_token is "" and no error.
ExchangeCodeUnchecked(self, redirectURI, code, replies) ==
    LET x == OAuthExchangeCode(self, redirectURI, code, replies.first)
    IN  IF x.err # NoErr
        THEN [token |-> EmptyToken, err |-> x.err, log |-> <<>>, sent |-> x.sent]
        ELSE LET rawIDToken == Extra(x.token, "id_token")
             IN  [token |-> IF rawIDToken.type = "string" THEN rawIDToken.str ELSE EmptyToken,
                  err |-> NoErr, log |-> <<>>, sent |-> x.sent]

\* ExchangeCode; replies is what the token endpoint answers to the request, and what it would
\* answer were the request made again.
ExchangeCode(self, redirectURI, code, replies) ==
    ExtractIDToken(self, OAuthExchangeCode(self, redirectURI, code, replies.first))

\* mapKeys: the keys of the map in an indeterminate order, so every order it can return.
mapKeys(m) ==
    {r \in [1..Cardinality(m) -> m] : \A i, j \in 1..Cardinality(m) : r[i] = r[j] => i = j}

\* RangeSplit without the test for the empty segment.
RECURSIVE RangeSplitKeepEmpty(_, _)
RangeSplitKeepEmpty(parts, acc) ==
    IF parts = <<>> THEN acc
    ELSE RangeSplitKeepEmpty(Tail(parts),
                             [groupMap |-> acc.groupMap \cup {Head(parts)},
                              log |-> Append(acc.log, LogLine("OIDC.GetUser, group:", Head(parts)))])

\* The inner loop of GetUser over strings.Split(groupFull, "/"); acc is groupMap and the log.
RECURSIVE RangeSplit(_, _)
RangeSplit(parts, acc) ==
    IF parts = <<>> THEN acc
    ELSE LET group == Head(parts)
         IN  IF group # <<>>
             THEN RangeSplit(Tail(parts),
                             [groupMap |-> acc.groupMap \cup {group},
                              log |-> Append(acc.log, LogLine("OIDC.GetUser, group:", group))])
             ELSE RangeSplit(Tail(parts), acc)

\* RangeGroups with the map made inside the loop: only the last raw value's segments survive.
RangeGroupsLastOnly(groups, acc) ==
    IF groups = <<>> THEN acc
    ELSE LET r == RangeSplit(Split(groups[Len(groups)], "/"), [groupMap |-> {}, log |-> acc.log])
         IN  [groupMap |-> r.groupMap, log |-> r.log]

\* The outer loop of GetUser over user.Groups.
RECURSIVE RangeGroups(_, _)
RangeGroups(groups, acc) ==
    IF groups = <<>> THEN acc
    ELSE RangeGroups(Tail(groups), RangeSplit(Split(Head(groups), "/"), acc))

\* GetUser going on to the claims although Verify returned an error.
GetUserIgnoreVerifyErr(self, token) ==
    IF token.empty THEN {[user |-> Nil, err |-> "oidc: malformed jwt", log |-> <<>>]}
    ELSE LET c == Claims([claims |-> token.claims])
         IN  IF c.err # NoErr THEN {[user |-> Nil, err |-> c.err, log |-> <<>>]}
             ELSE LET acc == RangeGroups(c.user.Groups, [groupMap |-> {}, log |-> <<>>])
                  IN  {[user |-> [User |-> c.user.Email, Groups |-> uniqueGrops],
                        err |-> NoErr, log |-> acc.log] : uniqueGrops \in mapKeys(acc.groupMap)}

\* GetUser rejecting a token whose email or groups claim is empty.
GetUserRequireClaims(self, token) ==
    LET v == Verify(self.verifier, self.ctx, token)
    IN  IF v.err # NoErr THEN {[user |-> Nil, err |-> v.err, log |-> <<>>]}
        ELSE LET c == Claims(v.idToken)
             IN  IF c.err # NoErr THEN {[user |-> Nil, err |-> c.err, log |-> <<>>]}
                 ELSE IF c.user.Email = "" \/ c.user.Groups = <<>>
                 THEN {[user |-> Nil, err |-> "missing claims", log |-> <<>>]}
                 ELSE LET acc == RangeGroups(c.user.Groups, [groupMap |-> {}, log |-> <<>>])
                      IN  {[user |-> [User |-> c.user.Email, Groups |-> uniqueGrops],
                            err |-> NoErr, log |-> acc.log] : uniqueGrops \in mapKeys(acc.groupMap)}

\* GetUser: every (user, error, log) the call can return; the order of Groups is mapKeys'.
GetUser(self, token) ==
    LET v == Verify(self.verifier, self.ctx, token)
    IN  IF v.err # NoErr THEN {[user |-> Nil, err |-> v.err, log |-> <<>>]}
        ELSE LET c == Claims(v.idToken)
             IN  IF c.err # NoErr THEN {[user |-> Nil, err |-> c.err, log |-> <<>>]}
                 ELSE LET acc == RangeGroups(c.user.Groups,
                                             [groupMap |-> {},
                                              log |-> <<LogLine("OIDC.GetUser, user:", c.user)>>])
                      IN  {[user |-> [User |-> c.user.Email, Groups |-> uniqueGrops],
                            err |-> NoErr, log |-> acc.log] : uniqueGrops \in mapKeys(acc.groupMap)}

Ready(self) == self.Config # Nil /\ self.verifier # Nil

----------------------------------------------------------------------------
(* The process: one Setup, then request operations one at a time *)

NoCall == [op |-> "none"]

Init ==
    /\ o \in {NewOIDC(i, c, s) : i \in IssuerURLs, c \in ClientIDs, s \in ClientSecrets}
    /\ setup = [called |-> FALSE, err |-> NoErr, log |-> <<>>]
    /\ last = NoCall
    /\ returned = {}
    /\ raw = <<>>
    /\ threads = <<>>

\* The caller runs Setup once, before any request operation.
Setup ==
    /\ ~setup.called
    /\ \E reply \in DiscoveryReplies :
          LET r == SetupResult(o, reply)
          IN  /\ o' = r.o
              /\ setup' = [called |-> TRUE, err |-> r.err, log |-> r.log]
    /\ UNCHANGED <<last, returned, raw, threads>>

\* Request operations are served only once Setup has returned success.
Serving == setup.called /\ setup.err = NoErr

DoGetLoginURL ==
    /\ Serving
    /\ \E redirectURI \in RedirectURIs, state \in States :
          LET url == GetLoginURL(o, redirectURI, state)
          IN  /\ last' = [op |-> "GetLoginURL", redirectURI |-> redirectURI, state |-> state,
                          url |-> url, sent |-> <<>>, log |-> <<>>]
              /\ returned' = returned \cup {[redirectURI |-> redirectURI, state |-> state, url |-> url]}
    /\ UNCHANGED <<o, setup, raw, threads>>

DoExchangeCode ==
    /\ Serving
    /\ \E redirectURI \in RedirectURIs, code \in Codes,
          replies \in [first : TokenReplies, again : TokenReplies] :
          LET r == ExchangeCode(o, redirectURI, code, replies)
          IN  last' = [op |-> "ExchangeCode", redirectURI |-> redirectURI, code |-> code,
                       replies |-> replies, token |-> r.token, err |-> r.err,
                       sent |-> r.sent, log |-> r.log]
    /\ UNCHANGED <<o, setup, returned, raw, threads>>

GetUserCall(token) ==
    /\ \E r \in GetUser(o, token) :
          last' = [op |-> "GetUser", token |-> token, user |-> r.user, err |-> r.err,
                   sent |-> <<>>, log |-> r.log]
    /\ UNCHANGED <<o, setup, returned, raw, threads>>

DoGetUser ==
    /\ Serving
    /\ \E token \in SmallTokens : GetUserCall(token)

Next == Setup \/ DoGetLoginURL \/ DoExchangeCode \/ DoGetUser

Spec == Init /\ [][Next]_vars

----------------------------------------------------------------------------
(* SpecFlatten: GetUser as a function of the raw group values of a verified token *)

GoodDiscovery ==
    [err |-> NoErr, issuer |-> "https://idp", authURL |-> "https://idp/auth", tokenURL |-> "https://idp/token"]

InitFlatten ==
    /\ o = SetupResult(NewOIDC("https://idp", "cid", "secret"), GoodDiscovery).o
    /\ setup = [called |-> TRUE, err |-> NoErr, log |-> <<LogLine("OIDC.Setup", Nil)>>]
    /\ last = NoCall
    /\ returned = {}
    /\ raw \in GroupLists
    /\ threads = <<>>

FlattenGetUser ==
    /\ Serving
    /\ last = NoCall
    /\ \E email \in {Absent, Present(Email)} :
          GetUserCall(Token("ok", o.ClientID, ClaimSet(email, Present(raw))))

NextFlatten == FlattenGetUser

SpecFlatten == InitFlatten /\ [][NextFlatten]_vars

----------------------------------------------------------------------------
(* SpecConc: after Setup, request handlers run the three operations concurrently.  A handler
   takes one step per access to the adapter or to the libraries behind it; its locals are its
   own. *)

Handlers == 1..NumThreads

IdleThread == [pc |-> "idle"]

ConcRedirectURIs == {"https://app/_oauth", "https://alt/_oauth"}
ConcTokens ==
    { ExampleToken,
      Token("ok", "cid", ClaimSet(Absent, Present(<< Slash \o G_a, G_a \o Slash \o G_b >>))),
      Token("ok", "cid", MalformedClaims),
      Token("bad", "cid", ClaimSet(Present(Email), Present(ExampleGroups))) }

InitConc ==
    /\ o \in {NewOIDC(i, c, s) : i \in IssuerURLs, c \in ClientIDs, s \in ClientSecrets}
    /\ setup = [called |-> FALSE, err |-> NoErr, log |-> <<>>]
    /\ last = NoCall
    /\ returned = {}
    /\ raw = <<>>
    /\ threads = [t \in Handlers |-> IdleThread]

Step(t, th) ==
    /\ threads' = [threads EXCEPT ![t] = th]
    /\ UNCHANGED <<o, setup, last, returned, raw>>

\* A handler is entered with its arguments.
ConcCallGetLoginURL(t) ==
    /\ Serving /\ threads[t].pc = "idle"
    /\ \E redirectURI \in ConcRedirectURIs :
          Step(t, [pc |-> "GetLoginURL", op |-> "GetLoginURL",
                   redirectURI |-> redirectURI, state |-> "s1"])

ConcCallExchangeCode(t) ==
    /\ Serving /\ threads[t].pc = "idle"
    /\ \E redirectURI \in ConcRedirectURIs :
          Step(t, [pc |-> "ExchangeCode", op |-> "ExchangeCode",
                   redirectURI |-> redirectURI, code |-> "c1"])

ConcCallGetUser(t) ==
    /\ Serving /\ threads[t].pc = "idle"
    /\ \E token \in ConcTokens :
          Step(t, [pc |-> "GetUser", op |-> "GetUser", token |-> token])

\* GetLoginURL: one read of the shared config.
ConcGetLoginURL(t) ==
    /\ threads[t].pc = "GetLoginURL"
    /\ Step(t, [threads[t] EXCEPT !.pc = "done"]
               @@ [url |-> GetLoginURL(o, threads[t].redirectURI, threads[t].state)])

\* ExchangeCode, first half: the exchange with the token endpoint.
ConcExchange(t) ==
    /\ threads[t].pc = "ExchangeCode"
    /\ \E reply \in TokenReplies :
          Step(t, [threads[t] EXCEPT !.pc = "extract"]
                  @@ [reply |-> reply,
                      x |-> OAuthExchangeCode(o, threads[t].redirectURI, threads[t].code, reply)])

\* ExchangeCode, second half: the id_token is taken out of the response and logged.
ConcExtract(t) ==
    /\ threads[t].pc = "extract"
    /\ LET r == ExtractIDToken(o, threads[t].x)
       IN  Step(t, [threads[t] EXCEPT !.pc = "done"]
                   @@ [token |-> r.token, err |-> r.err, sent |-> r.sent, log |-> r.log])

\* GetUser: verification against the shared verifier.
ConcVerify(t) ==
    /\ threads[t].pc = "GetUser"
    /\ LET v == Verify(o.verifier, o.ctx, threads[t].token)
       IN  IF v.err # NoErr
           THEN Step(t, [threads[t] EXCEPT !.pc = "done"]
                        @@ [user |-> Nil, err |-> v.err, log |-> <<>>])
           ELSE Step(t, [threads[t] EXCEPT !.pc = "claims"] @@ [idToken |-> v.idToken])

\* groupMap kept in one place for all calls: a call starts on what the calls under way have put in.
sharedGroupMap(t) ==
    UNION {threads[u].acc.groupMap : u \in {u \in Handlers : threads[u].pc = "range"}}

\* make(map[string]bool): the map of this call.
makeGroupMap(t) == {}

\* GetUser: the claims are decoded and logged, the group map is made.
ConcClaims(t) ==
    /\ threads[t].pc = "claims"
    /\ LET c == Claims(threads[t].idToken)
       IN  IF c.err # NoErr
           THEN Step(t, [threads[t] EXCEPT !.pc = "done"]
                        @@ [user |-> Nil, err |-> c.err, log |-> <<>>])
           ELSE Step(t, [threads[t] EXCEPT !.pc = "range"]
                        @@ [decoded |-> c.user, i |-> 1,
                            acc |-> [groupMap |-> makeGroupMap(t),
                                     log |-> <<LogLine("OIDC.GetUser, user:", c.user)>>]])

\* GetUser: one iteration of the loop over user.Groups.
ConcRange(t) ==
    /\ threads[t].pc = "range"
    /\ threads[t].i <= Len(threads[t].decoded.Groups)
    /\ Step(t, [threads[t] EXCEPT
                  !.i = @ + 1,
                  !.acc = RangeSplit(Split(threads[t].decoded.Groups[threads[t].i], "/"), @)])

\* GetUser: the loop is over, the keys are collected and the user returned.
ConcKeys(t) ==
    /\ threads[t].pc = "range"
    /\ threads[t].i > Len(threads[t].decoded.Groups)
    /\ \E uniqueGrops \in mapKeys(threads[t].acc.groupMap) :
          Step(t, [threads[t] EXCEPT !.pc = "done"]
                  @@ [user |-> [User |-> threads[t].decoded.Email, Groups |-> uniqueGrops],
                      err |-> NoErr, log |-> threads[t].acc.log])

\* The handler hands its result to its caller and is free for the next request.
ConcReturn(t) ==
    /\ threads[t].pc = "done"
    /\ Step(t, IdleThread)

NextConc ==
    \/ Setup
    \/ \E t \in Handlers :
          \/ ConcCallGetLoginURL(t)
          \/ ConcCallExchangeCode(t)
          \/ ConcCallGetUser(t)
          \/ ConcGetLoginURL(t)
          \/ ConcExchange(t)
          \/ ConcExtract(t)
          \/ ConcVerify(t)
          \/ ConcClaims(t)
          \/ ConcRange(t)
          \/ ConcKeys(t)
          \/ ConcReturn(t)

SpecConc == InitConc /\ [][NextConc]_vars

----------------------------------------------------------------------------
(* Properties *)

Range(f) == {f[i] : i \in DOMAIN f}

\* The non-empty '/'-separated segments of a string: its maximal runs of characters other than '/'.
Segments(s) ==
    {SubSeq(s, p[1], p[2]) :
        p \in {q \in (1..Len(s)) \X (1..Len(s)) :
                 /\ q[1] <= q[2]
                 /\ \A k \in q[1]..q[2] : s[k] # "/"
                 /\ (q[1] = 1 \/ s[q[1] - 1] = "/")
                 /\ (q[2] = Len(s) \/ s[q[2] + 1] = "/")}}

AllSegments(groups) == UNION {Segments(groups[i]) : i \in DOMAIN groups}

\* The token of the last GetUser call passed verification and its claims decode.
LastVerifies == Verify(o.verifier, o.ctx, last.token).err = NoErr
LastDecodes == LastVerifies /\ ~last.token.claims.malformed

\* C1: GetUser returns a user only when verification and claim decoding both succeed; a token
\* that fails verification, or verifies but does not decode, gets an error and a nil user.
C1_UserOnlyWhenVerifiedAndDecoded ==
    last.op = "GetUser" =>
        /\ (~LastVerifies \/ ~LastDecodes) => (last.user = Nil /\ last.err # NoErr)
        /\ last.user # Nil => (LastVerifies /\ LastDecodes /\ last.err = NoErr)

W_C1 ==
    /\ last.op = "GetUser"
    /\ ~last.token.empty
    /\ last.token.sig = "bad"
    /\ ~last.token.claims.malformed
    /\ last.token.claims.email.present
    /\ last.user = Nil
    /\ last.err # NoErr

\* C2: for a token that verifies and decodes, the user's identifier is the email claim and the
\* groups are exactly the non-empty '/'-separated segments of all raw group values: none empty,
\* none containing '/', none twice, none missing.
C2_GroupsAreTheSegments ==
    (last.op = "GetUser" /\ LastDecodes) =>
        LET claims == last.token.claims
            groups == last.user.Groups
        IN  /\ last.err = NoErr
            /\ last.user.User = (IF claims.email.present THEN claims.email.val ELSE "")
            /\ Range(groups) = AllSegments(IF claims.groups.present THEN claims.groups.val ELSE <<>>)
            /\ \A i \in DOMAIN groups : groups[i] # <<>> /\ \A k \in DOMAIN groups[i] : groups[i][k] # "/"
            /\ \A i, j \in DOMAIN groups : groups[i] = groups[j] => i = j

W_C2 ==
    /\ last.op = "GetUser"
    /\ last.token.claims.email = Present(Email)
    /\ raw = ExampleGroups
    /\ last.user # Nil
    /\ last.user.User = Email
    /\ Range(last.user.Groups) = {G_org, G_teamA, G_teamB}
    /\ Len(last.user.Groups) = 3

AnyEmpty(self) == self.IssuerURL = "" \/ self.ClientID = "" \/ self.ClientSecret = ""

\* C3: Setup returns the configuration error exactly when one of issuer URL, client ID and
\* client secret is empty, and gets past validation only when none is.
C3_ConfigErrorIffAnyEmpty ==
    setup.called =>
        /\ AnyEmpty(o) <=> setup.err = ConfigError
        /\ AnyEmpty(o) => (o.ctx = Nil /\ o.provider = Nil)
        /\ o.ctx # Nil => ~AnyEmpty(o)

W_C3 ==
    /\ setup.called
    /\ setup.err = ConfigError
    /\ o.IssuerURL # ""
    /\ o.ClientID # ""
    /\ o.ClientSecret = ""

\* C4: when the exchange succeeds, ExchangeCode returns "Missing id_token" and an empty token
\* if the response's id_token extension is missing or not a string, whatever the access token;
\* it returns the id_token string, and no error, only when the extension is a string.
C4_MissingIdToken ==
    (last.op = "ExchangeCode" /\ last.replies.first.err = NoErr) =>
        LET extra == last.replies.first.token.extra
        IN  /\ extra.type # "string" => (last.err = MissingIDToken /\ last.token = EmptyToken)
            /\ extra.type = "string" => (last.err = NoErr /\ last.token = extra.str)
            /\ last.err = NoErr => extra.type = "string"

W_C4 ==
    /\ last.op = "ExchangeCode"
    /\ last.replies.first.err = NoErr
    /\ last.replies.first.token.AccessToken # ""
    /\ last.replies.first.token.extra.type = "number"
    /\ last.err = MissingIDToken
    /\ last.token = EmptyToken

\* C5: after a Setup that returned an error, neither the OAuth2 config nor the verifier is
\* set; the adapter is Ready only after a Setup that returned success.
C5_NoPartialInit ==
    /\ (setup.called /\ setup.err # NoErr) => (o.Config = Nil /\ o.verifier = Nil)
    /\ Ready(o) => (setup.called /\ setup.err = NoErr)
    /\ (o.Config # Nil \/ o.verifier # Nil) => Ready(o)

W_C5 ==
    /\ setup.called
    /\ setup.err = "unreachable"
    /\ o.ctx # Nil
    /\ ~Ready(o)

\* C6: one ExchangeCode sends at most one request to the token endpoint; when that request
\* fails, its error comes back with an empty token, whatever a second request would get.
C6_NoRetry ==
    last.op = "ExchangeCode" =>
        /\ Len(last.sent) <= 1
        /\ last.replies.first.err # NoErr => (last.err = last.replies.first.err /\ last.token = EmptyToken)

W_C6 ==
    /\ last.op = "ExchangeCode"
    /\ last.replies.first.err # NoErr
    /\ last.replies.again.err = NoErr
    /\ last.replies.again.token.extra.type = "string"
    /\ last.err = last.replies.first.err
    /\ Len(last.sent) = 1

AsIfAlone(th) ==
    CASE th.op = "GetLoginURL" -> th.url = GetLoginURL(o, th.redirectURI, th.state)
      [] th.op = "ExchangeCode" ->
            LET r == ExchangeCode(o, th.redirectURI, th.code, [first |-> th.reply, again |-> th.reply])
            IN  th.token = r.token /\ th.err = r.err /\ th.sent = r.sent /\ th.log = r.log
      [] th.op = "GetUser" -> [user |-> th.user, err |-> th.err, log |-> th.log] \in GetUser(o, th.token)

\* C7: once Setup has returned success, no step of any handler changes the adapter (issuer
\* metadata, verifier, OAuth2 config, the three settings), and under every interleaving each
\* call returns what it would return run alone.
C7_ConcurrentSafe ==
    /\ [](\A t \in DOMAIN threads : threads[t].pc = "done" => AsIfAlone(threads[t]))
    /\ [][Serving => o' = o]_vars

W_C7 ==
    \E t, u \in DOMAIN threads :
        /\ t # u
        /\ threads[t].pc = "done"
        /\ threads[t].op = "GetUser"
        /\ threads[t].err = NoErr
        /\ Range(threads[t].user.Groups) = {G_a, G_b}
        /\ threads[u].pc = "range"
        /\ threads[u].i = 2
        /\ threads[u].acc.groupMap = {G_org, G_teamA}

\* The group set the loops of GetUser build from a list of raw group values.
GroupSetOf(groups) == RangeGroups(groups, [groupMap |-> {}, log |-> <<>>]).groupMap

\* Every order of the elements of a finite set, and every reordering of a list.
Orders(S) == {r \in [1..Cardinality(S) -> S] : \A i, j \in 1..Cardinality(S) : r[i] = r[j] => i = j}
Reorderings(l) == {[i \in 1..Len(l) |-> l[p[i]]] : p \in Orders(1..Len(l))}
Repeats(l) == {l \o <<l[i]>> : i \in DOMAIN l} \cup {<<l[i]>> \o l : i \in DOMAIN l}

\* C9: the group set GetUser returned is the one every permutation of the raw group values
\* and every list repeating one of them yields, and flattening that set again, in any order,
\* gives it back; ["/a/b", "/a/b"], ["a//b/"] and ["/a", "a/b"] each yield {a, b}.
C9_FlattenIdempotentOrderFree ==
    (last.op = "GetUser" /\ LastDecodes /\ last.token.claims.groups.present) =>
        LET in == last.token.claims.groups.val
            out == Range(last.user.Groups)
        IN  /\ \A v \in Reorderings(in) \cup Repeats(in) : GroupSetOf(v) = out
            /\ \A q \in Orders(out) : GroupSetOf(q) = out
            /\ in \in { << Slash \o G_a \o Slash \o G_b, Slash \o G_a \o Slash \o G_b >>,
                         << G_a \o Slash \o Slash \o G_b \o Slash >>,
                         << Slash \o G_a, G_a \o Slash \o G_b >> } => out = {G_a, G_b}

W_C9 ==
    /\ last.op = "GetUser"
    /\ raw = << Slash \o G_a, G_a \o Slash \o G_b >>
    /\ last.user # Nil
    /\ Range(last.user.Groups) = {G_a, G_b}
    /\ last.user.Groups[1] = G_b

\* C10: a verified token without an email claim or without a groups claim is no error: the
\* user comes back with an empty identifier and/or no groups.
C10_ClaimsOptional ==
    (last.op = "GetUser" /\ LastDecodes) =>
        /\ last.err = NoErr
        /\ last.user # Nil
        /\ ~last.token.claims.email.present => last.user.User = ""
        /\ ~last.token.claims.groups.present => last.user.Groups = <<>>

W_C10 ==
    /\ last.op = "GetUser"
    /\ LastDecodes
    /\ ~last.token.claims.email.present
    /\ ~last.token.claims.groups.present
    /\ last.err = NoErr
    /\ last.user = [User |-> "", Groups |-> <<>>]

====
